---------------------------- MODULE Spec2Model ----------------------------
(***************************************************************************)
(* Model of icdutil.addrrange.AddrRange (src/icdutil/addrrange.py).        *)
(*                                                                         *)
(* AddrRange is a frozen attrs class with the fields baseaddr, size and    *)
(* addrwidth and the operations __init__, endaddr, nextaddr, __eq__,       *)
(* __contains__, __iter__, is_overlapping and get_intersect.               *)
(*                                                                         *)
(* A caller holds two names (regs[1], regs[2]) which are unbound or bound  *)
(* to an AddrRange instance, and runs one operation at a time; `call`      *)
(* records the last operation, its operands and its outcome.  `iters`      *)
(* holds the iterators the caller obtained from __iter__.                  *)
(*                                                                         *)
(* typing.Optional[T] is modelled as a sequence of length <= 1:            *)
(* None is << >> and a value v is << v >>.                                 *)
(*                                                                         *)
(* humannum.Hex and humannum.Bytes are int subclasses of a third-party     *)
(* package: they keep the integer value they are given and only change     *)
(* how it is printed.  The model passes integers only (no '4 KB' strings)  *)
(* and does not model printing.                                            *)
(***************************************************************************)
EXTENDS Integers, Sequences, FiniteSets

VARIABLES regs, call, iters

vars == <<regs, call, iters>>

---------------------------------------------------------------------------
(* Bounds of the model *)

\* largest base address passed to the constructor
MaxAddr == 2

\* largest size passed to the constructor
MaxSize == 3

\* names the caller can bind an instance to
Slots == {1, 2}

\* iterators the caller can hold at once
IterSlots == {1, 2}

None == << >>

Some(v) == << v >>

\* base addresses the constructor is called with
BaseAddrs == 0 .. MaxAddr

\* sizes the constructor is called with: negative, zero and positive
Sizes == (0 - 1) .. MaxSize

\* addrwidth arguments: unset (the default) and 32 as in the doctest
AddrWidths == {None, Some(32)}

\* values tested for membership: from below the lowest base address to
\* above the highest next address
Values == (0 - 1) .. (MaxAddr + MaxSize + 1)

---------------------------------------------------------------------------
(* The class *)

\* humannum.Hex(value, width=...): an int that prints as hex
Hex(value, width) == value

\* humannum.Bytes(value): an int that prints as a byte count
Bytes(value) == value

\* AddrRange.__init__: converts and stores the three fields; nothing is checked
AddrRange(baseaddr, size, addrwidth) ==
    [class     |-> "AddrRange",
     baseaddr  |-> Hex(baseaddr, addrwidth),
     size      |-> Bytes(size),
     addrwidth |-> addrwidth]

\* AddrRange.endaddr
endaddr(self) == Hex(self.baseaddr + self.size - 1, self.addrwidth)

\* AddrRange.nextaddr
nextaddr(self) == Hex(endaddr(self) + 1, self.addrwidth)

\* an object of another class, as an operand of ==
Foreign == [class |-> "object"]

\* __eq__ that leaves addrwidth out of the comparison
eq_without_addrwidth(self, other) ==
    IF other.class = "AddrRange"
    THEN <<self.baseaddr, self.size>> = <<other.baseaddr, other.size>>
    ELSE "NotImplemented"

\* AddrRange.__eq__
eq(self, other) ==
    IF other.class = "AddrRange"
    THEN <<self.addrwidth, self.baseaddr, self.size>>
            = <<other.addrwidth, other.baseaddr, other.size>>
    ELSE "NotImplemented"

\* __contains__ with the end address excluded
contains_half_open(self, value) ==
    self.baseaddr <= value /\ value < endaddr(self)

\* AddrRange.__contains__
contains(self, value) == self.baseaddr <= value /\ value <= endaddr(self)

\* is_overlapping with > for >= in the first branch
is_overlapping_strict_right(self, other) ==
    IF self.baseaddr < other.baseaddr
    THEN endaddr(self) > other.baseaddr
    ELSE self.baseaddr <= endaddr(other)

\* is_overlapping with nextaddr for endaddr in the first branch
is_overlapping_nextaddr(self, other) ==
    IF self.baseaddr < other.baseaddr
    THEN nextaddr(self) >= other.baseaddr
    ELSE self.baseaddr <= endaddr(other)

\* is_overlapping with < for <= in the second branch
is_overlapping_strict_left(self, other) ==
    IF self.baseaddr < other.baseaddr
    THEN endaddr(self) >= other.baseaddr
    ELSE self.baseaddr < endaddr(other)

\* AddrRange.is_overlapping
is_overlapping(self, other) ==
    IF self.baseaddr < other.baseaddr
    THEN endaddr(self) >= other.baseaddr
    ELSE self.baseaddr <= endaddr(other)

\* Python's builtin max and min on two integers
max(x, y) == IF y > x THEN y ELSE x

min(x, y) == IF y < x THEN y ELSE x

\* get_intersect with size >= 0 for size > 0
get_intersect_allow_empty(self, other) ==
    LET baseaddr == max(self.baseaddr, other.baseaddr)
        end      == min(endaddr(self), endaddr(other))
        size     == end - baseaddr + 1
    IN  IF size >= 0 THEN Some(AddrRange(baseaddr, size, self.addrwidth)) ELSE None

\* get_intersect that takes the addrwidth of other
get_intersect_other_width(self, other) ==
    LET baseaddr == max(self.baseaddr, other.baseaddr)
        end      == min(endaddr(self), endaddr(other))
        size     == end - baseaddr + 1
    IN  IF size > 0 THEN Some(AddrRange(baseaddr, size, other.addrwidth)) ELSE None

\* AddrRange.get_intersect: Optional[AddrRange]
get_intersect(self, other) ==
    LET baseaddr == max(self.baseaddr, other.baseaddr)
        end      == min(endaddr(self), endaddr(other))
        size     == end - baseaddr + 1
    IN  IF size > 0 THEN Some(AddrRange(baseaddr, size, self.addrwidth)) ELSE None

\* __iter__ over range(baseaddr, endaddr)
iter_without_last(self) ==
    [start |-> self.baseaddr,
     stop  |-> endaddr(self),
     cur   |-> self.baseaddr,
     out   |-> << >>,
     done  |-> FALSE,
     of    |-> self]

\* AddrRange.__iter__: iter(range(baseaddr, endaddr + 1)), nothing yielded yet
iter(self) ==
    [start |-> self.baseaddr,
     stop  |-> endaddr(self) + 1,
     cur   |-> self.baseaddr,
     out   |-> << >>,
     done  |-> FALSE,
     of    |-> self]

---------------------------------------------------------------------------
(* The caller *)

NoCall == [op |-> "none", self |-> None, other |-> None, arg |-> None,
           ret |-> None, outcome |-> "return"]

Init ==
    /\ regs = [i \in Slots |-> None]
    /\ call = NoCall
    /\ iters = [k \in IterSlots |-> None]

\* regs[i] = AddrRange(baseaddr, size, addrwidth)
Construct(i, baseaddr, size, addrwidth) ==
    LET r == AddrRange(baseaddr, size, addrwidth)
    IN  /\ regs' = [regs EXCEPT ![i] = Some(r)]
        /\ call' = [op |-> "init", self |-> None, other |-> None,
                    arg |-> [baseaddr |-> baseaddr, size |-> size,
                             addrwidth |-> addrwidth],
                    ret |-> Some(r), outcome |-> "return"]
        /\ UNCHANGED iters

\* regs[i].endaddr and regs[i].nextaddr
Accessors(i) ==
    /\ regs[i] # None
    /\ call' = [op |-> "endaddr", self |-> regs[i], other |-> None, arg |-> None,
                ret |-> <<endaddr(regs[i][1]), nextaddr(regs[i][1])>>,
                outcome |-> "return"]
    /\ UNCHANGED <<regs, iters>>

\* regs[i] == regs[j]
Eq(i, j) ==
    /\ regs[i] # None /\ regs[j] # None
    /\ call' = [op |-> "eq", self |-> regs[i], other |-> regs[j], arg |-> None,
                ret |-> eq(regs[i][1], regs[j][1]), outcome |-> "return"]
    /\ UNCHANGED <<regs, iters>>

\* regs[i].__eq__(object of another class)
EqForeign(i) ==
    /\ regs[i] # None
    /\ call' = [op |-> "eq_foreign", self |-> regs[i], other |-> Some(Foreign),
                arg |-> None,
                ret |-> eq(regs[i][1], Foreign), outcome |-> "return"]
    /\ UNCHANGED <<regs, iters>>

\* value in regs[i]
Contains(i, value) ==
    /\ regs[i] # None
    /\ call' = [op |-> "contains", self |-> regs[i], other |-> None,
                arg |-> value,
                ret |-> contains(regs[i][1], value), outcome |-> "return"]
    /\ UNCHANGED <<regs, iters>>

\* regs[i].is_overlapping(regs[j])
IsOverlapping(i, j) ==
    /\ regs[i] # None /\ regs[j] # None
    /\ call' = [op |-> "is_overlapping", self |-> regs[i], other |-> regs[j],
                arg |-> None,
                ret |-> is_overlapping(regs[i][1], regs[j][1]),
                outcome |-> "return"]
    /\ UNCHANGED <<regs, iters>>

\* regs[k] = regs[i].get_intersect(regs[j])
GetIntersect(i, j, k) ==
    /\ regs[i] # None /\ regs[j] # None
    /\ LET r == get_intersect(regs[i][1], regs[j][1])
       IN  /\ regs' = [regs EXCEPT ![k] = r]
           /\ call' = [op |-> "get_intersect", self |-> regs[i],
                       other |-> regs[j], arg |-> None,
                       ret |-> r, outcome |-> "return"]
    /\ UNCHANGED iters

Next ==
    \/ \E i \in Slots, b \in BaseAddrs, s \in Sizes, w \in AddrWidths :
          Construct(i, b, s, w)
    \/ \E i \in Slots : Accessors(i)
    \/ \E i, j \in Slots : Eq(i, j)
    \/ \E i \in Slots : EqForeign(i)
    \/ \E i \in Slots, v \in Values : Contains(i, v)
    \/ \E i, j \in Slots : IsOverlapping(i, j)
    \/ \E i, j, k \in Slots : GetIntersect(i, j, k)

Spec == Init /\ [][Next]_vars

---------------------------------------------------------------------------
(* Iteration: the caller holds one instance and iterates over it *)

InitIter ==
    /\ \E b \in BaseAddrs, s \in Sizes, w \in AddrWidths :
          regs = [i \in Slots |-> IF i = 1 THEN Some(AddrRange(b, s, w)) ELSE None]
    /\ call = NoCall
    /\ iters = [k \in IterSlots |-> None]

\* iters[k] = iter(regs[i])
Iter(i, k) ==
    /\ regs[i] # None
    /\ iters' = [iters EXCEPT ![k] = Some(iter(regs[i][1]))]
    /\ UNCHANGED <<regs, call>>

\* next(iters[k]): yields the current value, or stops at the end of the range
IterNext(k) ==
    /\ iters[k] # None
    /\ ~ iters[k][1].done
    /\ LET it == iters[k][1]
       IN  iters' = [iters EXCEPT ![k] =
                IF it.cur < it.stop
                THEN Some([it EXCEPT !.out = Append(it.out, it.cur),
                                     !.cur = it.cur + 1])
                ELSE Some([it EXCEPT !.done = TRUE])]
    /\ UNCHANGED <<regs, call>>

NextIter ==
    \/ \E i \in Slots, k \in IterSlots : Iter(i, k)
    \/ \E k \in IterSlots : IterNext(k)

SpecIter == InitIter /\ [][NextIter]_vars

---------------------------------------------------------------------------
(* Properties *)

\* an instance as the specification wants every instance to be
Valid(r) == r.size >= 1

\* the operands of the last call, when it has them
Self == call.self[1]

Other == call.other[1]

\* the two ranges have an address in common, by the fields alone
SharesAddress(a, b) ==
    \E v \in Values :
        /\ a.baseaddr <= v /\ v <= a.baseaddr + a.size - 1
        /\ b.baseaddr <= v /\ v <= b.baseaddr + b.size - 1

\* C1: a construction with size == 0 or size < 0 ends in InvalidRangeError
\* and produces no instance.
C1_InvalidSizeRejected ==
    (call.op = "init" /\ call.arg.size <= 0) =>
        /\ call.outcome = "raise InvalidRangeError"
        /\ call.ret = None

\* C2: for two valid ranges is_overlapping is true iff they share an address,
\* which is the symmetric interval test
\* self.baseaddr <= other.endaddr /\ other.baseaddr <= self.endaddr.
C2_OverlapIffShared ==
    (call.op = "is_overlapping" /\ Valid(Self) /\ Valid(Other)) =>
        /\ call.ret = SharesAddress(Self, Other)
        /\ call.ret = (/\ Self.baseaddr <= Other.baseaddr + Other.size - 1
                       /\ Other.baseaddr <= Self.baseaddr + Self.size - 1)

C2_Witness ==
    /\ call.op = "is_overlapping" /\ Valid(Self) /\ Valid(Other)
    /\ Self.baseaddr < Other.baseaddr
    /\ Self.baseaddr + Self.size - 1 > Other.baseaddr
    /\ call.ret = TRUE

\* C3 as stated: when self ends exactly where other begins
\* (self.endaddr == other.baseaddr) is_overlapping returns false, and when the
\* two ranges have the same baseaddr it returns true.
C3_Original ==
    (call.op = "is_overlapping" /\ Valid(Self) /\ Valid(Other)) =>
        /\ (Self.baseaddr + Self.size - 1 = Other.baseaddr
              /\ Self.baseaddr # Other.baseaddr) => call.ret = FALSE
        /\ (Self.baseaddr = Other.baseaddr) => call.ret = TRUE

\* C3 amended: when other begins at the first address after self
\* (self.nextaddr == other.baseaddr, self of size >= 1) is_overlapping returns
\* false; when self ends on other's first address (self.endaddr ==
\* other.baseaddr, both of size >= 1) it returns true; when the two ranges
\* have the same baseaddr (other of size >= 1) it returns true.
C3_BoundaryTieBreak ==
    (call.op = "is_overlapping") =>
        /\ (Valid(Self) /\ Self.baseaddr + Self.size = Other.baseaddr)
              => call.ret = FALSE
        /\ (Valid(Self) /\ Valid(Other)
              /\ Self.baseaddr + Self.size - 1 = Other.baseaddr)
              => call.ret = TRUE
        /\ (Valid(Other) /\ Self.baseaddr = Other.baseaddr)
              => call.ret = TRUE

C3_Witness ==
    /\ call.op = "is_overlapping" /\ Valid(Self) /\ Valid(Other)
    /\ Self.size >= 2
    /\ Self.baseaddr + Self.size = Other.baseaddr
    /\ call.ret = FALSE

\* C4: is_overlapping is symmetric on valid ranges, whatever their addrwidth:
\* a.is_overlapping(b) == b.is_overlapping(a).
C4_OverlapSymmetric ==
    (call.op = "is_overlapping" /\ Valid(Self) /\ Valid(Other)) =>
        call.ret = is_overlapping(Other, Self)

C4_Witness ==
    /\ call.op = "is_overlapping" /\ Valid(Self) /\ Valid(Other)
    /\ Self.baseaddr > Other.baseaddr
    /\ Self.addrwidth # Other.addrwidth
    /\ call.ret = TRUE
    /\ is_overlapping(Other, Self)

\* C5: for valid ranges get_intersect returns None iff is_overlapping is
\* false, and it returns (it does not raise).
C5_IntersectNoneIffDisjoint ==
    (call.op = "get_intersect" /\ Valid(Self) /\ Valid(Other)) =>
        /\ call.outcome = "return"
        /\ (call.ret = None) <=> ~ is_overlapping(Self, Other)

C5_Witness ==
    /\ call.op = "get_intersect" /\ Valid(Self) /\ Valid(Other)
    /\ Self.baseaddr + Self.size = Other.baseaddr
    /\ call.ret = None

\* C6: a range returned by get_intersect has baseaddr = max of the two
\* baseaddrs, endaddr = min of the two endaddrs, size = endaddr - baseaddr + 1
\* and the receiver's addrwidth; with the operands swapped the bounds are the
\* same and the addrwidth is the other operand's.
C6_IntersectBounds ==
    (call.op = "get_intersect" /\ call.ret # None) =>
        LET r    == call.ret[1]
            lo   == IF Self.baseaddr >= Other.baseaddr
                    THEN Self.baseaddr ELSE Other.baseaddr
            se   == Self.baseaddr + Self.size - 1
            oe   == Other.baseaddr + Other.size - 1
            hi   == IF se <= oe THEN se ELSE oe
            swap == get_intersect(Other, Self)
        IN  /\ r.baseaddr = lo
            /\ r.baseaddr + r.size - 1 = hi
            /\ r.size = hi - lo + 1
            /\ r.addrwidth = Self.addrwidth
            /\ swap # None
            /\ swap[1].baseaddr = r.baseaddr
            /\ swap[1].size = r.size
            /\ swap[1].addrwidth = Other.addrwidth

C6_Witness ==
    /\ call.op = "get_intersect" /\ call.ret # None
    /\ Self.addrwidth # Other.addrwidth
    /\ Self.baseaddr < Other.baseaddr
    /\ Self.baseaddr + Self.size < Other.baseaddr + Other.size
    /\ call.ret[1].size >= 2

\* C7: for a valid range, value in range is true iff
\* baseaddr <= value <= endaddr: true at baseaddr and endaddr, false at
\* baseaddr - 1 and at endaddr + 1 (nextaddr).
C7_ContainsIffInBounds ==
    (call.op = "contains" /\ Valid(Self)) =>
        LET v == call.arg
        IN  /\ call.ret = (Self.baseaddr <= v /\ v <= Self.baseaddr + Self.size - 1)
            /\ v = Self.baseaddr => call.ret = TRUE
            /\ v = Self.baseaddr + Self.size - 1 => call.ret = TRUE
            /\ v = Self.baseaddr - 1 => call.ret = FALSE
            /\ v = Self.baseaddr + Self.size => call.ret = FALSE

C7_Witness ==
    /\ call.op = "contains" /\ Valid(Self)
    /\ Self.size >= 2
    /\ call.arg = Self.baseaddr + Self.size - 1
    /\ call.ret = TRUE

\* C8: an iteration of a valid range yields exactly size values, the first
\* baseaddr, each one more than the one before, the last endaddr; every
\* iteration does so whatever another iteration of the same range has done.
C8_IterationAscending ==
    \A k \in IterSlots :
        (iters[k] # None /\ Valid(iters[k][1].of)) =>
            LET it == iters[k][1]
                r  == it.of
            IN  /\ Len(it.out) <= r.size
                /\ \A j \in 1 .. Len(it.out) : it.out[j] = r.baseaddr + j - 1
                /\ it.done =>
                      /\ Len(it.out) = r.size
                      /\ it.out[Len(it.out)] = r.baseaddr + r.size - 1

C8_Witness ==
    /\ iters[1] # None /\ iters[2] # None
    /\ iters[1][1].done
    /\ Len(iters[1][1].out) >= 2
    /\ ~ iters[2][1].done
    /\ Len(iters[2][1].out) = 1
    /\ iters[2][1].out[1] = regs[1][1].baseaddr

\* C9: two instances are equal iff baseaddr, size and addrwidth are all equal;
\* the same baseaddr and size with different addrwidth is not equal.
C9_EqualIffAllFields ==
    (call.op = "eq") =>
        /\ call.ret = (/\ Self.baseaddr = Other.baseaddr
                       /\ Self.size = Other.size
                       /\ Self.addrwidth = Other.addrwidth)
        /\ (/\ Self.baseaddr = Other.baseaddr
            /\ Self.size = Other.size
            /\ Self.addrwidth # Other.addrwidth) => call.ret = FALSE

C9_Witness ==
    /\ call.op = "eq"
    /\ Self.baseaddr = Other.baseaddr
    /\ Self.size = Other.size
    /\ Self.addrwidth = Some(32) /\ Other.addrwidth = None
    /\ call.ret = FALSE

\* C10: every instance that exists, built by the constructor or returned by
\* get_intersect, has size >= 1 and endaddr >= baseaddr.
C10_EveryInstanceValid ==
    \A i \in Slots :
        regs[i] # None =>
            /\ regs[i][1].size >= 1
            /\ endaddr(regs[i][1]) >= regs[i][1].baseaddr

===========================================================================
